---------------------------- MODULE Spec2Model ----------------------------
(***************************************************************************)
(* Model of plugins/claude-workbench/skills/quick-descriptive-stats/       *)
(* analyze.py: the summarize_csv pipeline (load_csv, analyze_data_quality, *)
(* compute_statistics, analyze_correlations, the four chart branches and   *)
(* format_summary_report) and direct calls of analyze_data_quality on a    *)
(* DataFrame built by the caller, as the test suite makes them.            *)
(*                                                                         *)
(* A column name is a sequence of one-character strings, so that           *)
(* str.lower() and the substring test `"date" in c.lower()` are computed.  *)
(* A DataFrame is [columns, dtype, data, nrows]: the column names in       *)
(* order, the dtype of each column, the cells of each column, the length   *)
(* of the index.  pandas, matplotlib and seaborn are collaborators: the    *)
(* numeric kernels are abstracted to "num" / "nan", a render call either   *)
(* writes its file or raises.                                              *)
(***************************************************************************)
EXTENDS Integers, Sequences, FiniteSets, TLC

VARIABLES
    entry,      \* the function the caller invoked
    file,       \* the input file of summarize_csv
    pc,         \* the position inside the call
    df,         \* the DataFrame (local df of summarize_csv / the argument)
    quality,    \* local quality of summarize_csv
    stats,      \* local stats
    corr,       \* local corr
    charts,     \* local charts (list of paths)
    written,    \* the files savefig wrote in this run, in order
    figures,    \* history: what each saved figure shows, in order
    disk,       \* the files of output_dir
    report,     \* the value returned to the caller
    error,      \* the exception that reached the caller
    calls       \* history: the functions called so far, in order

vars == <<entry, file, pc, df, quality, stats, corr, charts, written,
          figures, disk, report, error, calls>>

----------------------------------------------------------------------------
(* Bounds of the checked inputs *)

\* summarize_csv inputs: at most MaxCols columns picked from ColumnPool
MaxCols == 3
\* analyze_data_quality direct calls: a grid of at most QRows x QCols cells
QRows == 3
QCols == 2
\* summarize_csv inputs: tables of MaxWide columns drawn from WideKinds
MaxWide == 5

----------------------------------------------------------------------------
(* Constants of analyze.py *)

MAX_CATEGORICAL_PLOTS == 4
MAX_NUMERIC_PLOTS == 4
MAX_TIMESERIES_PLOTS == 3
\* the fixed 2 x 2 grid of plt.subplots(2, 2)
GRID_CELLS == 4

None == [tag |-> "None"]
NaN == "nan"
output_dir == "out"

----------------------------------------------------------------------------
(* Strings *)

\* str.lower() on one character, for the letters the inputs use
LowerChar(ch) ==
    CASE ch = "D" -> "d"
      [] ch = "I" -> "i"
      [] ch = "T" -> "t"
      [] ch = "U" -> "u"
      [] OTHER -> ch

lower(s) == [i \in 1..Len(s) |-> LowerChar(s[i])]

\* Python's `sub in s` on strings
Contains(sub, s) ==
    \E i \in 1..(Len(s) - Len(sub) + 1) : SubSeq(s, i, i + Len(sub) - 1) = sub

RECURSIVE SumSeq(_)
SumSeq(seq) == IF seq = <<>> THEN 0 ELSE Head(seq) + SumSeq(Tail(seq))

Range(seq) == {seq[i] : i \in 1..Len(seq)}

min(a, b) == IF a < b THEN a ELSE b

----------------------------------------------------------------------------
(* DataFrame *)

NumberDtypes == {"int64", "float64"}

\* position of column c in df.columns (names are unique: read_csv mangles
\* duplicates, a dict-built frame cannot have any)
ColIndex(frame, c) == CHOOSE i \in 1..Len(frame.columns) : frame.columns[i] = c

Column(frame, c) == frame.data[ColIndex(frame, c)]

DtypeOf(frame, c) == frame.dtype[ColIndex(frame, c)]

\* df.shape
Shape(frame) == <<frame.nrows, Len(frame.columns)>>

\* df[col].isnull().sum()
NullCount(cells) == Len(SelectSeq(cells, LAMBDA v : v = NaN))

\* df.select_dtypes(include=...).columns.tolist()
select_dtypes(frame, include) ==
    SelectSeq(frame.columns, LAMBDA c : DtypeOf(frame, c) \in include)

----------------------------------------------------------------------------
(* Input files and pd.read_csv *)

\* One CSV column: its header name and its raw text cells ("" is an empty
\* field, "1" an integer literal, "x" a word, "d" a date such as 2024-01-01,
\* "T" the literal True).
ColumnPool ==
    { [name |-> <<"d","a","t","e">>,         raw |-> <<"d", "d">>],
      [name |-> <<"T","i","m","e">>,         raw |-> <<"1", "1">>],
      [name |-> <<"U","p","d","a","t","e">>, raw |-> <<"x", "">>],
      [name |-> <<"q","t","y">>,             raw |-> <<"1", "1">>],
      [name |-> <<"r","e","v">>,             raw |-> <<"1", "">>],
      [name |-> <<"g","a","p">>,             raw |-> <<"", "">>],
      [name |-> <<"I","D">>,                 raw |-> <<"x", "x">>],
      [name |-> <<"p","a","i","d">>,         raw |-> <<"x", "">>],
      [name |-> <<"s","t","a","t","u","s">>, raw |-> <<"x", "x">>],
      [name |-> <<"f","l","a","g">>,         raw |-> <<"T", "T">> ] }

\* the ordered choices of k pool columns with distinct names
RECURSIVE Selections(_)
Selections(k) ==
    IF k = 0 THEN {<<>>}
    ELSE UNION { { Append(sel, col) :
                     col \in { c \in ColumnPool :
                                 \A i \in 1..Len(sel) : sel[i].name # c.name } } :
                 sel \in Selections(k - 1) }

\* a CSV file with a header line and the pool's rows, or the header line only
TableFile(sel, withRows) ==
    [exists |-> TRUE, size |-> 1, kind |-> "table",
     header |-> [i \in 1..Len(sel) |-> sel[i].name],
     raw    |-> [i \in 1..Len(sel) |-> IF withRows THEN sel[i].raw ELSE <<>>],
     nrows  |-> IF withRows THEN 2 ELSE 0]

\* A column of a wide table, named after its kind and its position i:
\* n<i> integers, s<i> words, id<i> words, date<i> dates, time<i> integers
WideKinds == {"n", "s", "id", "date", "time"}

WideColumn(kind, i) ==
    CASE kind = "n" ->
           [name |-> <<"n", ToString(i)>>, raw |-> <<"1", "1">>]
      [] kind = "s" ->
           [name |-> <<"s", ToString(i)>>, raw |-> <<"x", "x">>]
      [] kind = "id" ->
           [name |-> <<"i", "d", ToString(i)>>, raw |-> <<"x", "x">>]
      [] kind = "date" ->
           [name |-> <<"d", "a", "t", "e", ToString(i)>>, raw |-> <<"d", "d">>]
      [] kind = "time" ->
           [name |-> <<"t", "i", "m", "e", ToString(i)>>, raw |-> <<"1", "1">>]

\* the tables of exactly MaxWide such columns
WideFiles ==
    { TableFile([i \in 1..MaxWide |-> WideColumn(kinds[i], i)], TRUE) :
        kinds \in [1..MaxWide -> WideKinds] }

OtherFile(exists, size, kind) ==
    [exists |-> exists, size |-> size, kind |-> kind,
     header |-> <<>>, raw |-> <<>>, nrows |-> 0]

\* no such path; a zero-byte file; a file of blank lines (no column to
\* parse); a file the tokenizer rejects
MissingFile == OtherFile(FALSE, 0, "blank")
ZeroByteFile == OtherFile(TRUE, 0, "blank")
BlankFile == OtherFile(TRUE, 1, "blank")
BadFile == OtherFile(TRUE, 1, "bad")

Files ==
    {MissingFile, ZeroByteFile, BlankFile, BadFile} \cup
    { TableFile(sel, withRows) :
        sel \in UNION { Selections(k) : k \in 1..MaxCols },
        withRows \in BOOLEAN } \cup
    WideFiles

NoFile == OtherFile(FALSE, 0, "none")

\* the dtype read_csv infers for one column of text cells
InferDtype(raw) ==
    IF raw = <<>> THEN "object"
    ELSE IF \A i \in 1..Len(raw) : raw[i] = "" THEN "float64"
    ELSE IF \A i \in 1..Len(raw) : raw[i] = "1" THEN "int64"
    ELSE IF \A i \in 1..Len(raw) : raw[i] \in {"1", ""} THEN "float64"
    ELSE IF \A i \in 1..Len(raw) : raw[i] = "T" THEN "bool"
    ELSE "object"

\* pd.read_csv(file_path): EmptyDataError, another exception, or a frame
read_csv(f) ==
    IF f.kind = "blank" THEN [tag |-> "EmptyDataError"]
    ELSE IF f.kind = "bad" THEN [tag |-> "ParserError"]
    ELSE [tag |-> "DataFrame",
          df |-> [columns |-> f.header,
                  dtype   |-> [i \in 1..Len(f.raw) |-> InferDtype(f.raw[i])],
                  data    |-> [i \in 1..Len(f.raw) |->
                                 [r \in 1..Len(f.raw[i]) |->
                                    IF f.raw[i][r] = "" THEN NaN
                                    ELSE f.raw[i][r]]],
                  nrows   |-> f.nrows]]

NoFrame == [columns |-> <<>>, dtype |-> <<>>, data |-> <<>>, nrows |-> 0]

\* what a call returns: a value or a raised exception
Return(v) == [tag |-> "return", value |-> v]
Raise(type, msg) == [tag |-> "raise", type |-> type, msg |-> msg]

load_csv(f) ==
    IF ~f.exists THEN Raise("FileNotFoundError", "CSV file not found")
    ELSE IF f.size = 0 THEN Raise("ValueError", "CSV file is empty")
    ELSE LET r == read_csv(f) IN
         IF r.tag = "EmptyDataError"
           THEN Raise("ValueError", "CSV file is empty")
         ELSE IF r.tag # "DataFrame"
           THEN Raise("ValueError", "Failed to parse CSV file")
         ELSE Return(r.df)

----------------------------------------------------------------------------
(* analyze_data_quality *)

\* a float: a finite value, scaled to the digits it was rounded to, or nan/inf
Float(v) == [finite |-> TRUE, v |-> v]
NotFinite == [finite |-> FALSE, v |-> 0]

\* round(numer / denom * 100, digits), in units of 10^-digits percent
\* (round half to even); numpy's integer division by zero gives nan or inf
Pow10(digits) == IF digits = 0 THEN 1 ELSE IF digits = 1 THEN 10 ELSE 100

RoundedPercent(numer, denom, digits) ==
    IF denom = 0 THEN NotFinite
    ELSE LET scaled == numer * 100 * Pow10(digits)
             q == scaled \div denom
             twice == 2 * (scaled % denom)
         IN  Float(IF twice > denom \/ (twice = denom /\ q % 2 = 1)
                   THEN q + 1 ELSE q)

\* variant: the rows holding a null (df.isnull().any(axis=1).sum()) instead
\* of the null cells
TotalMissing_RowsWithNull(frame) ==
    Cardinality({r \in 1..frame.nrows :
                   \E i \in 1..Len(frame.columns) : frame.data[i][r] = NaN})

\* df.isnull().sum().sum()
TotalMissing(frame) ==
    SumSeq([i \in 1..Len(frame.columns) |-> NullCount(frame.data[i])])

\* variant: line 79 as `col_missing >= 0`, every column gets an entry
MissingByColumn_AllColumns(frame) ==
    [i \in 1..Len(frame.columns) |->
        [key |-> frame.columns[i],
         count |-> NullCount(frame.data[i]),
         percentage |-> RoundedPercent(NullCount(frame.data[i]),
                                       frame.nrows, 1)]]

\* variant: line 80 dividing by the cell count instead of len(df)
MissingByColumn_OverCells(frame) ==
    LET missing == SelectSeq(frame.columns,
                             LAMBDA c : NullCount(Column(frame, c)) > 0)
    IN  [i \in 1..Len(missing) |->
           [key |-> missing[i],
            count |-> NullCount(Column(frame, missing[i])),
            percentage |->
                RoundedPercent(NullCount(Column(frame, missing[i])),
                               frame.nrows * Len(frame.columns), 1)]]

\* the loop of lines 76-84: one entry per column with col_missing > 0, in
\* column order (a dict keeps insertion order)
MissingByColumn(frame) ==
    LET entryOf(c) ==
            [key |-> c,
             count |-> NullCount(Column(frame, c)),
             percentage |-> RoundedPercent(NullCount(Column(frame, c)),
                                           frame.nrows, 1)]
        missing == SelectSeq(frame.columns,
                             LAMBDA c : NullCount(Column(frame, c)) > 0)
    IN  [i \in 1..Len(missing) |-> entryOf(missing[i])]

\* variant: lines 72-74 without the `if total_cells > 0` guard
analyze_data_quality_NoGuard(frame) ==
    [total_missing |-> TotalMissing(frame),
     missing_percentage |->
         RoundedPercent(TotalMissing(frame),
                        Shape(frame)[1] * Shape(frame)[2], 2),
     is_complete |-> (TotalMissing(frame) = 0),
     missing_by_column |-> MissingByColumn(frame)]

analyze_data_quality(frame) ==
    LET total_cells == Shape(frame)[1] * Shape(frame)[2]
        total_missing == TotalMissing(frame)
    IN  [total_missing |-> total_missing,
         missing_percentage |->
             IF total_cells > 0
             THEN RoundedPercent(total_missing, total_cells, 2)
             ELSE Float(0),
         is_complete |-> (total_missing = 0),
         missing_by_column |-> MissingByColumn(frame)]

----------------------------------------------------------------------------
(* compute_statistics and analyze_correlations *)

\* df[col].describe(): the kernel's numbers, and their rounding to 2 places,
\* are abstracted to "num"; with no non-null value every statistic is nan,
\* with one the std is nan, and round(nan, 2) is nan
describe(cells) ==
    LET n == Len(cells) - NullCount(cells)
        some == IF n = 0 THEN NaN ELSE "num"
    IN  [mean |-> some,
         std  |-> IF n < 2 THEN NaN ELSE "num",
         min  |-> some, p25 |-> some, p50 |-> some, p75 |-> some,
         max  |-> some]

\* variant: the columns without a non-null value left out of the table
compute_statistics_SkipAllNull(frame) ==
    LET numeric_cols ==
            SelectSeq(select_dtypes(frame, NumberDtypes),
                      LAMBDA c : NullCount(Column(frame, c))
                                   < Len(Column(frame, c)))
    IN  [i \in 1..Len(numeric_cols) |->
           [key |-> numeric_cols[i]] @@ describe(Column(frame, numeric_cols[i]))]

\* the dict of lines 110-121 as its entries in insertion order; {} is <<>>
compute_statistics(frame) ==
    LET numeric_cols == select_dtypes(frame, NumberDtypes)
        entryOf(c) ==
            LET desc == describe(Column(frame, c)) IN
            [key |-> c,
             mean |-> desc.mean, std |-> desc.std,
             min |-> desc.min, p25 |-> desc.p25,
             p50 |-> desc.p50, p75 |-> desc.p75,
             max |-> desc.max]
    IN  IF numeric_cols = <<>> THEN <<>>
        ELSE [i \in 1..Len(numeric_cols) |-> entryOf(numeric_cols[i])]

\* df[numeric_cols].corr(): a frame indexed by numeric_cols on both axes
\* (the coefficients are the kernel's)
CorrelationMatrix(numeric_cols) ==
    [tag |-> "DataFrame", index |-> numeric_cols, columns |-> numeric_cols]

\* variant: line 139 as `len(numeric_cols) < 1`
analyze_correlations_OffByOne(frame) ==
    LET numeric_cols == select_dtypes(frame, NumberDtypes) IN
    IF Len(numeric_cols) < 1 THEN None
    ELSE CorrelationMatrix(numeric_cols)

analyze_correlations(frame) ==
    LET numeric_cols == select_dtypes(frame, NumberDtypes) IN
    IF Len(numeric_cols) < 2 THEN None
    ELSE CorrelationMatrix(numeric_cols)

----------------------------------------------------------------------------
(* The chart branches: what each decides to draw *)

\* f"{output_dir}/{name}"
PathOf(dir, name) == [dir |-> dir, name |-> name]

\* Path(chart).name
Basename(path) == path.name

NoPlan == [tag |-> "nothing"]
Plan(name, cols, hidden) ==
    [tag |-> "figure", name |-> name, cols |-> cols, hidden |-> hidden]

\* first n items of a list: seq[:n]
Take(seq, n) == SubSeq(seq, 1, min(n, Len(seq)))

\* lines 156-168: one figure for the whole matrix
HeatmapPlan(matrix) ==
    Plan("correlation_heatmap.png", matrix.index, 0)

\* lines 185-188
DateCols(frame) ==
    SelectSeq(frame.columns,
              LAMBDA c : \/ Contains(<<"d","a","t","e">>, lower(c))
                         \/ Contains(<<"t","i","m","e">>, lower(c)))

\* pd.to_datetime(cells, errors="coerce") on one cell: a date text and a
\* number convert, anything else becomes NaT
ToDatetimeCell(v) ==
    IF v = "d" THEN "d" ELSE IF v = "1" THEN "ts" ELSE NaN

\* variant: line 195 parsing into a column that keeps its dtype, so a
\* numeric date column stays among the numeric columns
WithParsedDate_KeepDtype(frame, date_col) ==
    LET k == ColIndex(frame, date_col) IN
    [frame EXCEPT
       !.data[k] = [r \in 1..Len(frame.data[k]) |->
                      ToDatetimeCell(frame.data[k][r])]]

\* lines 194-195: the copy with date_col parsed
WithParsedDate(frame, date_col) ==
    LET k == ColIndex(frame, date_col) IN
    [frame EXCEPT
       !.dtype[k] = "datetime64",
       !.data[k] = [r \in 1..Len(frame.data[k]) |->
                      ToDatetimeCell(frame.data[k][r])]]

\* variant: line 194 as `df_copy = df`, the assignment reaching the
\* caller's frame
TimeSeriesFrames_NoCopy(frame) ==
    LET date_cols == DateCols(frame) IN
    IF date_cols = <<>> THEN [shared |-> frame, df_copy |-> frame]
    ELSE [shared |-> WithParsedDate(frame, date_cols[1]),
          df_copy |-> WithParsedDate(frame, date_cols[1])]

\* lines 190-195: the caller's frame and the function's df_copy once
\* date_col is assigned: df.copy() is a new frame, so the assignment of line
\* 195 changes df_copy alone; without a date column nothing is copied
TimeSeriesFrames(frame) ==
    LET date_cols == DateCols(frame) IN
    IF date_cols = <<>> THEN [shared |-> frame, df_copy |-> frame]
    ELSE [shared |-> frame, df_copy |-> WithParsedDate(frame, date_cols[1])]

\* variant: line 210 plotting every numeric column (no [:n_plots])
TimeSeriesPlan_NoLimit(frame) ==
    LET date_cols == DateCols(frame) IN
    IF date_cols = <<>> THEN NoPlan
    ELSE LET numeric_cols ==
                 select_dtypes(TimeSeriesFrames(frame).df_copy, NumberDtypes)
         IN  IF numeric_cols = <<>> THEN NoPlan
             ELSE [tag |-> "figure", name |-> "time_series_analysis.png",
                   cols |-> numeric_cols, hidden |-> 0,
                   date_col |-> date_cols[1]]

\* lines 185-210 of create_time_series_plots
TimeSeriesPlan(frame) ==
    LET date_cols == DateCols(frame) IN
    IF date_cols = <<>> THEN NoPlan
    ELSE LET date_col == date_cols[1]
             df_copy == TimeSeriesFrames(frame).df_copy
             numeric_cols == select_dtypes(df_copy, NumberDtypes)
         IN  IF numeric_cols = <<>> THEN NoPlan
             ELSE LET n_plots == min(MAX_TIMESERIES_PLOTS, Len(numeric_cols))
                  IN  [tag |-> "figure", name |-> "time_series_analysis.png",
                       cols |-> Take(numeric_cols, n_plots), hidden |-> 0,
                       date_col |-> date_col]

\* variant: line 268 as range(n_cols + 1, 4), one unused cell left visible
DistributionPlan_HideOneLess(frame) ==
    LET numeric_cols == select_dtypes(frame, NumberDtypes) IN
    IF numeric_cols = <<>> THEN NoPlan
    ELSE LET n_cols == min(MAX_NUMERIC_PLOTS, Len(numeric_cols)) IN
         Plan("distributions.png", Take(numeric_cols, n_cols),
              IF n_cols + 1 < GRID_CELLS THEN GRID_CELLS - (n_cols + 1) ELSE 0)

\* variant: line 246 as `if len(numeric_cols) < 2`, the guard of
\* analyze_correlations in place of the emptiness test
DistributionPlan_NeedsTwo(frame) ==
    LET numeric_cols == select_dtypes(frame, NumberDtypes) IN
    IF Len(numeric_cols) < 2 THEN NoPlan
    ELSE LET n_cols == min(MAX_NUMERIC_PLOTS, Len(numeric_cols)) IN
         Plan("distributions.png", Take(numeric_cols, n_cols),
              GRID_CELLS - n_cols)

\* lines 244-269 of create_distribution_plots
DistributionPlan(frame) ==
    LET numeric_cols == select_dtypes(frame, NumberDtypes) IN
    IF numeric_cols = <<>> THEN NoPlan
    ELSE LET n_cols == min(MAX_NUMERIC_PLOTS, Len(numeric_cols)) IN
         Plan("distributions.png", Take(numeric_cols, n_cols),
              GRID_CELLS - n_cols)

\* variant: line 296 as `"id" not in c`, without lower()
CategoricalCols_CaseSensitive(frame) ==
    SelectSeq(select_dtypes(frame, {"object"}),
              LAMBDA c : ~Contains(<<"i","d">>, c))

\* lines 292-297
CategoricalCols(frame) ==
    SelectSeq(select_dtypes(frame, {"object"}),
              LAMBDA c : ~Contains(<<"i","d">>, lower(c)))

\* lines 292-319 of create_categorical_plots
CategoricalPlan(frame) ==
    LET categorical_cols == CategoricalCols(frame) IN
    IF categorical_cols = <<>> THEN NoPlan
    ELSE LET n_cols == min(MAX_CATEGORICAL_PLOTS, Len(categorical_cols)) IN
         Plan("categorical_distributions.png", Take(categorical_cols, n_cols),
              GRID_CELLS - n_cols)

----------------------------------------------------------------------------
(* format_summary_report: the list `summary`, one record per appended line *)

Line(kind, args) == [kind |-> kind, args |-> args]

OverviewLines(frame) ==
    << Line("rule", <<>>), Line("DATA OVERVIEW", <<>>), Line("rule", <<>>),
       Line("shape", Shape(frame)), Line("columns", frame.columns) >>

DtypeLines(frame) ==
    <<Line("DATA TYPES", <<>>)>> \o
    [i \in 1..Len(frame.columns) |->
        Line("dtype", <<frame.columns[i], frame.dtype[i]>>)]

QualityLines(q) ==
    <<Line("DATA QUALITY", <<>>)>> \o
    IF q.is_complete THEN <<Line("no missing values", <<>>)>>
    ELSE << Line("missing values", <<q.total_missing, q.missing_percentage>>),
            Line("missing by column", <<>>) >> \o
         [i \in 1..Len(q.missing_by_column) |->
            Line("missing", <<q.missing_by_column[i]>>)]

StatBlock(e) ==
    << Line("column", <<e.key>>), Line("Mean", <<e.mean>>),
       Line("Std Dev", <<e.std>>), Line("Range", <<e.min, e.max>>),
       Line("Median", <<e.p50>>) >>

RECURSIVE StatBlocks(_)
StatBlocks(st) ==
    IF st = <<>> THEN <<>> ELSE StatBlock(Head(st)) \o StatBlocks(Tail(st))

StatisticsLines(st) ==
    IF st # <<>> THEN <<Line("NUMERICAL ANALYSIS", <<>>)>> \o StatBlocks(st)
    ELSE <<>>

CorrelationLines(matrix) ==
    IF matrix # None
    THEN << Line("CORRELATIONS", <<>>), Line("matrix", <<matrix>>) >>
    ELSE <<>>

ChartLines(paths) ==
    IF paths # <<>>
    THEN <<Line("VISUALIZATIONS CREATED", <<>>)>> \o
         [i \in 1..Len(paths) |-> Line("chart", <<Basename(paths[i])>>)]
    ELSE <<>>

FooterLines ==
    << Line("rule", <<>>), Line("COMPREHENSIVE ANALYSIS COMPLETE", <<>>),
       Line("rule", <<>>) >>

\* variant: the correlation block appended before the statistics block
format_summary_report_CorrFirst(frame, q, st, matrix, paths) ==
    OverviewLines(frame) \o DtypeLines(frame) \o QualityLines(q) \o
    CorrelationLines(matrix) \o StatisticsLines(st) \o ChartLines(paths) \o
    FooterLines

format_summary_report(frame, q, st, matrix, paths) ==
    OverviewLines(frame) \o DtypeLines(frame) \o QualityLines(q) \o
    StatisticsLines(st) \o CorrelationLines(matrix) \o ChartLines(paths) \o
    FooterLines

----------------------------------------------------------------------------
(* The calls *)

\* frames a caller builds itself and hands to analyze_data_quality, as
\* tests/test_data_quality.py does: up to QCols object columns c1, c2, ...
\* of up to QRows cells, each None or a value
QFrames ==
    { [columns |-> [i \in 1..k |-> <<"c", ToString(i)>>],
       dtype   |-> [i \in 1..k |-> "object"],
       data    |-> data,
       nrows   |-> n] :
      <<k, n, data>> \in
        UNION { { <<k, n, d>> : d \in [1..k -> [1..n -> {NaN, "x"}]] } :
                <<k, n>> \in (0..QCols) \X (0..QRows) } }

\* the fixed file names of lines 203, 249, 302 and 448
ArtifactNames ==
    << "correlation_heatmap.png", "time_series_analysis.png",
       "distributions.png", "categorical_distributions.png" >>

\* output_dir as an earlier run on a full dataset left it
EarlierRun ==
    {[name |-> ArtifactNames[i], run |-> "earlier"] : i \in 1..4}

\* variant: a file already there is kept beside the new one
savefig_KeepOld(files, name) ==
    files \cup {[name |-> name, run |-> "this"]}

\* plt.savefig(output_path): the file of that name is created or replaced
savefig(files, name) ==
    {f \in files : f.name # name} \cup {[name |-> name, run |-> "this"]}

Init ==
    /\ \/ /\ entry = "summarize_csv"
          /\ file \in Files
          /\ df = NoFrame
          /\ pc = "load"
          /\ disk \in {{}, EarlierRun}
       \/ /\ entry = "analyze_data_quality"
          /\ file = NoFile
          /\ df \in QFrames
          /\ pc = "quality"
          /\ disk = {}
    /\ quality = None
    /\ stats = <<>>
    /\ corr = None
    /\ charts = <<>>
    /\ written = <<>>
    /\ figures = <<>>
    /\ report = None
    /\ error = None
    /\ calls = <<>>

\* variant: the exception of load_csv swallowed, the run going on with an
\* empty frame
Load_Swallow ==
    /\ pc = "load"
    /\ calls' = Append(calls, "load_csv")
    /\ LET r == load_csv(file) IN
       df' = IF r.tag = "raise" THEN NoFrame ELSE r.value
    /\ pc' = "quality"
    /\ UNCHANGED <<entry, file, quality, stats, corr, charts, written,
                   figures, disk, report, error>>

\* summarize_csv line 432: an exception of load_csv leaves summarize_csv
Load ==
    /\ pc = "load"
    /\ calls' = Append(calls, "load_csv")
    /\ LET r == load_csv(file) IN
       IF r.tag = "raise"
       THEN /\ error' = r
            /\ pc' = "raised"
            /\ df' = df
       ELSE /\ df' = r.value
            /\ pc' = "quality"
            /\ error' = error
    /\ UNCHANGED <<entry, file, quality, stats, corr, charts, written,
                   figures, disk, report>>

\* summarize_csv line 435, or the direct call
AnalyzeDataQuality ==
    /\ pc = "quality"
    /\ calls' = Append(calls, "analyze_data_quality")
    /\ quality' = analyze_data_quality(df)
    /\ pc' = IF entry = "summarize_csv" THEN "stats" ELSE "done"
    /\ UNCHANGED <<entry, file, df, stats, corr, charts, written, figures,
                   disk, report, error>>

\* summarize_csv line 438
ComputeStatistics ==
    /\ pc = "stats"
    /\ calls' = Append(calls, "compute_statistics")
    /\ stats' = compute_statistics(df)
    /\ pc' = "corr"
    /\ UNCHANGED <<entry, file, df, quality, corr, charts, written, figures,
                   disk, report, error>>

\* summarize_csv lines 441-444
AnalyzeCorrelations ==
    /\ pc = "corr"
    /\ calls' = Append(calls, "analyze_correlations")
    /\ corr' = analyze_correlations(df)
    /\ charts' = <<>>
    /\ pc' = "heatmap"
    /\ UNCHANGED <<entry, file, df, quality, stats, written, figures, disk,
                   report, error>>

\* A chart function draws `plan` and saves it: savefig writes the file and
\* the path is collected, or the backend raises and, summarize_csv having no
\* handler, the exception leaves summarize_csv.
Render(fn, plan, next) ==
    \E ok \in BOOLEAN :
       IF ok
       THEN /\ written' = Append(written, plan.name)
            /\ figures' = Append(figures, plan)
            /\ disk' = savefig(disk, plan.name)
            /\ charts' = Append(charts, PathOf(output_dir, plan.name))
            /\ pc' = next
            /\ error' = error
       ELSE /\ error' = Raise("RenderError", fn)
            /\ pc' = "raised"
            /\ UNCHANGED <<written, figures, disk, charts>>

\* a branch with nothing to draw returns [] and extend() adds nothing
Skip(next) ==
    /\ pc' = next
    /\ UNCHANGED <<written, figures, disk, charts, error>>

\* variant: line 447 testing `if stats:` instead of `if corr is not None:`
CorrelationHeatmap_WhenStats ==
    /\ pc = "heatmap"
    /\ IF stats # <<>>
       THEN /\ calls' = Append(calls, "create_correlation_heatmap")
            /\ Render("create_correlation_heatmap",
                      Plan("correlation_heatmap.png", <<>>, 0), "timeseries")
       ELSE /\ calls' = calls
            /\ Skip("timeseries")
    /\ UNCHANGED <<entry, file, df, quality, stats, corr, report>>

\* summarize_csv lines 447-450
CorrelationHeatmap ==
    /\ pc = "heatmap"
    /\ IF corr # None
       THEN /\ calls' = Append(calls, "create_correlation_heatmap")
            /\ Render("create_correlation_heatmap", HeatmapPlan(corr),
                      "timeseries")
       ELSE /\ calls' = calls
            /\ Skip("timeseries")
    /\ UNCHANGED <<entry, file, df, quality, stats, corr, report>>

\* the call of a create_*_plots function, which leaves the caller's frame
\* as `shared`
Branch(fn, plan, shared, next) ==
    /\ calls' = Append(calls, fn)
    /\ df' = shared
    /\ IF plan.tag = "figure" THEN Render(fn, plan, next) ELSE Skip(next)
    /\ UNCHANGED <<entry, file, quality, stats, corr, report>>

\* summarize_csv line 453
TimeSeriesPlots ==
    /\ pc = "timeseries"
    /\ Branch("create_time_series_plots", TimeSeriesPlan(df),
              TimeSeriesFrames(df).shared, "distributions")

\* variant: the report formatted right after the distribution plots
DistributionPlots_ThenFormat ==
    /\ pc = "distributions"
    /\ Branch("create_distribution_plots", DistributionPlan(df), df, "format")

\* summarize_csv line 456
DistributionPlots ==
    /\ pc = "distributions"
    /\ Branch("create_distribution_plots", DistributionPlan(df), df,
              "categorical")

\* summarize_csv line 459
CategoricalPlots ==
    /\ pc = "categorical"
    /\ Branch("create_categorical_plots", CategoricalPlan(df), df, "format")

\* summarize_csv line 462
FormatSummaryReport ==
    /\ pc = "format"
    /\ calls' = Append(calls, "format_summary_report")
    /\ report' = Return(format_summary_report(df, quality, stats, corr, charts))
    /\ pc' = "done"
    /\ UNCHANGED <<entry, file, df, quality, stats, corr, charts, written,
                   figures, disk, error>>

Next ==
    \/ Load
    \/ AnalyzeDataQuality
    \/ ComputeStatistics
    \/ AnalyzeCorrelations
    \/ CorrelationHeatmap
    \/ TimeSeriesPlots
    \/ DistributionPlots
    \/ CategoricalPlots
    \/ FormatSummaryReport

Spec == Init /\ [][Next]_vars

----------------------------------------------------------------------------
(* Vocabulary of the properties, stated on the frame itself *)

\* the rows of column i whose cell is missing
MissingRows(frame, i) ==
    {r \in 1..Len(frame.data[i]) : frame.data[i][r] = NaN}

\* the positions of the numeric columns
NumericPositions(frame) ==
    {i \in 1..Len(frame.columns) : frame.dtype[i] \in {"int64", "float64"}}

IsPrefix(a, b) == Len(a) <= Len(b) /\ SubSeq(b, 1, Len(a)) = a

\* the names in the collected artifact list
ChartNames == [i \in 1..Len(charts) |-> charts[i].name]

Occurrences(seq, x) == Cardinality({i \in 1..Len(seq) : seq[i] = x})

InPipeline == entry = "summarize_csv"
LoadFailed == InPipeline /\ pc = "raised" /\ calls = <<"load_csv">>
RenderFailed == InPipeline /\ pc = "raised" /\ calls # <<"load_csv">>
QualityDone == "analyze_data_quality" \in Range(calls)

\* the calls summarize_csv makes when nothing raises, in source order
ExpectedCalls ==
    << "load_csv", "analyze_data_quality", "compute_statistics",
       "analyze_correlations" >> \o
    (IF corr # None THEN <<"create_correlation_heatmap">> ELSE <<>>) \o
    << "create_time_series_plots", "create_distribution_plots",
       "create_categorical_plots", "format_summary_report" >>

----------------------------------------------------------------------------
(* C1 *)

\* C1: after a successful load no failure of a chart branch reaches the
\* caller: summarize_csv never ends with the renderer's exception.
C1_BranchFailureContained ==
    ~RenderFailed

----------------------------------------------------------------------------
(* C2 *)

\* C2: when load_csv raises, summarize_csv ends at once with that very
\* exception: load_csv was the only call, nothing was computed, no report
\* was returned and no file was written.
C2_LoadFailurePropagates ==
    (InPipeline /\ pc # "load" /\ load_csv(file).tag = "raise") =>
        /\ pc = "raised"
        /\ error = load_csv(file)
        /\ calls = <<"load_csv">>
        /\ df = NoFrame /\ quality = None /\ stats = <<>> /\ corr = None
        /\ charts = <<>> /\ written = <<>> /\ report = None

C2_Witness ==
    LoadFailed /\ file.exists /\ file.size > 0 /\ error.type = "ValueError"

----------------------------------------------------------------------------
(* C3 *)

\* C3: the calls of a run are a prefix of load, quality, statistics,
\* correlation, the chart branches, format, each made once; a stage runs
\* with its predecessors' results in place, and the report exists only when
\* every call was made, format last.
C3_StagesInOrder ==
    InPipeline =>
        /\ IsPrefix(calls, ExpectedCalls)
        /\ (Len(calls) >= 3 => quality # None)
        /\ (Len(calls) < 4 => corr = None /\ charts = <<>> /\ written = <<>>)
        /\ (pc = "done" <=> calls = ExpectedCalls)
        /\ (report # None <=> pc = "done")

C3_Witness ==
    InPipeline /\ pc = "done" /\ Len(calls) = 9 /\ Len(charts) = 4

----------------------------------------------------------------------------
(* C4 *)

\* C4: load_csv never returns a Dataset with zero rows or zero columns.
C4_LoadedDatasetNotEmpty ==
    (InPipeline /\ pc = "quality") =>
        (df.nrows > 0 /\ Len(df.columns) > 0)

----------------------------------------------------------------------------
(* C5 *)

\* C5: is_complete = (total_missing = 0); a column is a key of
\* missing_by_column iff one of its cells is missing; with no missing cell
\* total_missing = 0, is_complete and missing_by_column = {}.
C5_QualityReportConsistent ==
    QualityDone =>
        LET mbc == quality.missing_by_column
            keys == {mbc[k].key : k \in 1..Len(mbc)}
        IN  /\ quality.is_complete = (quality.total_missing = 0)
            /\ keys = {df.columns[i] : i \in {j \in 1..Len(df.columns) :
                                               MissingRows(df, j) # {}}}
            /\ Cardinality(keys) = Len(mbc)
            /\ (\A i \in 1..Len(df.columns) : MissingRows(df, i) = {}) =>
                   /\ quality.total_missing = 0
                   /\ quality.is_complete
                   /\ mbc = <<>>

C5_Witness ==
    /\ QualityDone
    /\ Len(quality.missing_by_column) = 1
    /\ Len(df.columns) = 2
    /\ ~quality.is_complete

----------------------------------------------------------------------------
(* C6 *)

\* C6: the counts of missing_by_column add up to total_missing.
C6_CountsSumToTotal ==
    QualityDone =>
        SumSeq([k \in 1..Len(quality.missing_by_column) |->
                  quality.missing_by_column[k].count])
          = quality.total_missing

C6_Witness ==
    /\ QualityDone
    /\ Len(quality.missing_by_column) = 2
    /\ quality.total_missing = 3

----------------------------------------------------------------------------
(* C7 *)

\* C7: no percentage comes from a division by zero: with rows x columns = 0
\* missing_percentage is 0.0, every per-column percentage is finite, and
\* missing_percentage lies in [0, 100] (here in hundredths of a percent).
C7_NoDivisionByZero ==
    QualityDone =>
        /\ quality.missing_percentage.finite
        /\ quality.missing_percentage.v \in 0..10000
        /\ (df.nrows * Len(df.columns) = 0 =>
               quality.missing_percentage = Float(0))
        /\ \A k \in 1..Len(quality.missing_by_column) :
               quality.missing_by_column[k].percentage.finite

C7_Witness ==
    QualityDone /\ df.nrows = 0 /\ Len(df.columns) > 0

----------------------------------------------------------------------------
(* C8 *)

\* C8: with at least one row, a column whose every cell is null is in
\* missing_by_column with count = row count and percentage = 100.0 (1000
\* tenths of a percent).
C8_AllNullColumn ==
    (QualityDone /\ df.nrows >= 1) =>
        \A i \in 1..Len(df.columns) :
            MissingRows(df, i) = 1..df.nrows =>
                \E k \in 1..Len(quality.missing_by_column) :
                    /\ quality.missing_by_column[k].key = df.columns[i]
                    /\ quality.missing_by_column[k].count = df.nrows
                    /\ quality.missing_by_column[k].percentage = Float(1000)

C8_Witness ==
    /\ QualityDone
    /\ df.nrows >= 2
    /\ \E i, j \in 1..Len(df.columns) :
          MissingRows(df, i) = 1..df.nrows /\ MissingRows(df, j) = {}

----------------------------------------------------------------------------
(* C9 *)

\* C9: analyze_correlations gives None with fewer than 2 numeric columns,
\* never an empty or 1 x 1 matrix, and otherwise a square matrix whose two
\* axes are exactly the numeric columns in their original order.
C9_CorrelationAbsentOrSquare ==
    (InPipeline /\ "analyze_correlations" \in Range(calls)) =>
        LET numeric == NumericPositions(df) IN
        IF Cardinality(numeric) < 2 THEN corr = None
        ELSE /\ corr # None
             /\ corr.index = corr.columns
             /\ Len(corr.index) = Cardinality(numeric)
             /\ Range(corr.index) = {df.columns[i] : i \in numeric}
             /\ \A a, b \in 1..Len(corr.index) :
                    a < b => ColIndex(df, corr.index[a])
                               < ColIndex(df, corr.index[b])

C9_Witness ==
    /\ InPipeline /\ corr # None
    /\ Len(corr.index) = 2 /\ Len(df.columns) = 3
    /\ df.dtype[2] = "object"

----------------------------------------------------------------------------
(* C10 *)

\* C10: the heatmap branch is entered iff the matrix is present, i.e. iff
\* there are 2 or more numeric columns; the heatmap is listed only then,
\* only once and only after it was written, and a run that returns lists it
\* iff the matrix is present; with exactly one numeric column a run that
\* returns lists no heatmap and lists distributions.png.
C10_HeatmapIffCorrelation ==
    (InPipeline /\ Len(calls) > 4) =>
        LET present == corr # None
            listed == Occurrences(ChartNames, "correlation_heatmap.png")
        IN  /\ present <=> Cardinality(NumericPositions(df)) >= 2
            /\ present <=> "create_correlation_heatmap" \in Range(calls)
            /\ listed <= 1
            /\ listed = 1 => present /\ "correlation_heatmap.png" \in Range(written)
            /\ pc = "done" => (listed = 1 <=> present)
            /\ (pc = "done" /\ Cardinality(NumericPositions(df)) = 1) =>
                   /\ listed = 0
                   /\ Occurrences(ChartNames, "distributions.png") = 1
                   /\ "distributions.png" \in Range(written)

C10_Witness ==
    /\ InPipeline /\ pc = "done"
    /\ Cardinality(NumericPositions(df)) = 1
    /\ "distributions.png" \in Range(ChartNames)
    /\ "correlation_heatmap.png" \notin Range(ChartNames)

----------------------------------------------------------------------------
(* C11 *)

\* the keys of a dict modelled as its entries in insertion order
Keys(entries) == [k \in 1..Len(entries) |-> entries[k].key]

\* seq lists exactly the columns at `positions`, in column order
ListsInOrder(seq, frame, positions) ==
    /\ Len(seq) = Cardinality(positions)
    /\ Range(seq) = {frame.columns[i] : i \in positions}
    /\ \A a, b \in 1..Len(seq) :
           a < b => ColIndex(frame, seq[a]) < ColIndex(frame, seq[b])

\* C11: the keys of the statistics table are exactly the numeric columns,
\* all-null ones included, in column order; with no numeric column the table
\* is the empty mapping and nothing is raised.
C11_StatisticsKeys ==
    (InPipeline /\ "compute_statistics" \in Range(calls)) =>
        /\ ListsInOrder(Keys(stats), df, NumericPositions(df))
        /\ (NumericPositions(df) = {} => stats = <<>>)
        /\ ~LoadFailed

C11_Witness ==
    /\ InPipeline /\ pc = "corr"
    /\ Len(stats) = 2 /\ Len(df.columns) = 3
    /\ df.dtype[1] = "object"
    /\ \E i \in NumericPositions(df) : MissingRows(df, i) = 1..df.nrows

----------------------------------------------------------------------------
(* C12 *)

\* the two letter cases of a lower-case letter
BothCases(ch) ==
    CASE ch = "d" -> {"d", "D"}
      [] ch = "i" -> {"i", "I"}
      [] ch = "t" -> {"t", "T"}
      [] ch = "u" -> {"u", "U"}
      [] OTHER -> {ch}

\* name holds the lower-case word in some letter case
HoldsWord(word, name) ==
    \E i \in 0..(Len(name) - Len(word)) :
        \A j \in 1..Len(word) : name[i + j] \in BothCases(word[j])

\* the positions of the columns named like a date or a time
DateNamedPositions(frame) ==
    {i \in 1..Len(frame.columns) :
        \/ HoldsWord(<<"d","a","t","e">>, frame.columns[i])
        \/ HoldsWord(<<"t","i","m","e">>, frame.columns[i])}

Lowest(positions) == CHOOSE i \in positions : \A j \in positions : i <= j

\* the k lowest positions of a set
FirstK(positions, k) ==
    {i \in positions : Cardinality({j \in positions : j < i}) < k}

\* the call of fn has returned (a renderer exception ends the run inside it)
Returned(fn) ==
    /\ InPipeline
    /\ fn \in Range(calls)
    /\ ~(pc = "raised" /\ calls[Len(calls)] = fn)

\* the saved figures of the given file name
FiguresNamed(name) == {k \in 1..Len(figures) : figures[k].name = name}

\* the numeric columns left once the chosen date column is parsed
SeriesPositions(frame) ==
    IF DateNamedPositions(frame) = {} THEN NumericPositions(frame)
    ELSE NumericPositions(frame) \ {Lowest(DateNamedPositions(frame))}

\* C12: once create_time_series_plots has returned: without a date/time
\* named column, or without a numeric column besides the chosen one, nothing
\* was saved or listed; otherwise one figure time_series_analysis.png was
\* saved and listed once, its date key the first date/time named column and
\* its series the first min(3, n) remaining numeric columns in column order.
C12_TimeSeriesSelection ==
    Returned("create_time_series_plots") =>
        LET saved == FiguresNamed("time_series_analysis.png")
            listed == Occurrences(ChartNames, "time_series_analysis.png")
        IN  IF \/ DateNamedPositions(df) = {}
               \/ SeriesPositions(df) = {}
            THEN saved = {} /\ listed = 0
            ELSE /\ Cardinality(saved) = 1 /\ listed = 1
                 /\ \A k \in saved :
                      /\ figures[k].date_col
                           = df.columns[Lowest(DateNamedPositions(df))]
                      /\ Len(figures[k].cols)
                           = min(3, Cardinality(SeriesPositions(df)))
                      /\ ListsInOrder(figures[k].cols, df,
                                      FirstK(SeriesPositions(df), 3))

C12_Witness ==
    /\ Returned("create_time_series_plots")
    /\ Cardinality(SeriesPositions(df)) = 4
    /\ Cardinality(DateNamedPositions(df)) = 1
    /\ \E k \in FiguresNamed("time_series_analysis.png") :
          Len(figures[k].cols) = 3

----------------------------------------------------------------------------
(* C13 *)

\* C13: once create_distribution_plots has returned, distributions.png was
\* saved and listed, once, iff there is a numeric column; the figure shows
\* the first min(4, n) numeric columns in column order and hides the other
\* cells of its grid of 4.
C13_DistributionGrid ==
    Returned("create_distribution_plots") =>
        LET saved == FiguresNamed("distributions.png")
            listed == Occurrences(ChartNames, "distributions.png")
            numeric == NumericPositions(df)
        IN  IF numeric = {} THEN saved = {} /\ listed = 0
            ELSE /\ Cardinality(saved) = 1 /\ listed = 1
                 /\ \A k \in saved :
                      /\ Len(figures[k].cols) = min(4, Cardinality(numeric))
                      /\ ListsInOrder(figures[k].cols, df, FirstK(numeric, 4))
                      /\ figures[k].hidden >= 0
                      /\ Len(figures[k].cols) + figures[k].hidden = 4

C13_Witness ==
    /\ Returned("create_distribution_plots")
    /\ Cardinality(NumericPositions(df)) = 5
    /\ \E k \in FiguresNamed("distributions.png") :
          Len(figures[k].cols) = 4 /\ figures[k].hidden = 0

----------------------------------------------------------------------------
(* C14 *)

\* the positions of the text columns whose name holds no "id" in any case
CandidatePositions(frame) ==
    {i \in 1..Len(frame.columns) :
        /\ frame.dtype[i] = "object"
        /\ ~HoldsWord(<<"i","d">>, frame.columns[i])}

\* C14: once create_categorical_plots has returned,
\* categorical_distributions.png was saved and listed, once, iff there is a
\* text column without "id" in its name; the figure charts the first
\* min(4, n) such columns in column order and no other column.
C14_CategoricalCandidates ==
    Returned("create_categorical_plots") =>
        LET saved == FiguresNamed("categorical_distributions.png")
            listed == Occurrences(ChartNames, "categorical_distributions.png")
            candidates == CandidatePositions(df)
        IN  IF candidates = {} THEN saved = {} /\ listed = 0
            ELSE /\ Cardinality(saved) = 1 /\ listed = 1
                 /\ \A k \in saved :
                      /\ Len(figures[k].cols) = min(4, Cardinality(candidates))
                      /\ ListsInOrder(figures[k].cols, df,
                                      FirstK(candidates, 4))

C14_Witness ==
    /\ Returned("create_categorical_plots")
    /\ Cardinality(CandidatePositions(df)) = 5
    /\ \E k \in FiguresNamed("categorical_distributions.png") :
          Len(figures[k].cols) = 4

\* the scenario of a text column named like an identifier beside a plain one
C14_IdentifierScenario ==
    /\ Returned("create_categorical_plots")
    /\ df.columns = << <<"I","D">>, <<"s","t","a","t","u","s">> >>
    /\ df.nrows = 2
    /\ \E k \in FiguresNamed("categorical_distributions.png") :
          figures[k].cols = << <<"s","t","a","t","u","s">> >>

----------------------------------------------------------------------------
(* C15 *)

\* the place of a file name in the fixed order of the four categories
CategoryOrder(name) ==
    CASE name = "correlation_heatmap.png" -> 1
      [] name = "time_series_analysis.png" -> 2
      [] name = "distributions.png" -> 3
      [] name = "categorical_distributions.png" -> 4
      [] OTHER -> 0

\* C15: the collected list holds only the four fixed names, in output_dir,
\* each at most once and in the fixed order; a listed file was written in
\* this run; output_dir never holds another name nor two files of one name:
\* a file left by an earlier run is replaced by the one written now.
C15_ArtifactNames ==
    InPipeline =>
        /\ \A i \in 1..Len(charts) :
              /\ CategoryOrder(charts[i].name) > 0
              /\ charts[i].dir = output_dir
              /\ charts[i].name \in Range(written)
              /\ [name |-> charts[i].name, run |-> "this"] \in disk
        /\ \A i, j \in 1..Len(charts) :
              i < j => CategoryOrder(charts[i].name)
                         < CategoryOrder(charts[j].name)
        /\ \A f \in disk : CategoryOrder(f.name) > 0
        /\ \A f, g \in disk : f.name = g.name => f = g
        /\ \A k \in 1..Len(written) :
              [name |-> written[k], run |-> "earlier"] \notin disk

C15_Witness ==
    /\ InPipeline /\ pc = "done"
    /\ Len(charts) = 2
    /\ Cardinality({f \in disk : f.run = "earlier"}) = 2

----------------------------------------------------------------------------
(* C16 *)

SectionOrder ==
    << "DATA OVERVIEW", "DATA TYPES", "DATA QUALITY", "NUMERICAL ANALYSIS",
       "CORRELATIONS", "VISUALIZATIONS CREATED" >>

\* the lines of the returned report of the given kind, by position
LinesOfKind(kind) ==
    {i \in 1..Len(report.value) : report.value[i].kind = kind}

\* the kinds of the report's lines, in order
ReportKinds == [i \in 1..Len(report.value) |-> report.value[i].kind]

\* C16: in the returned report each section heading occurs at most once and
\* in the fixed order; overview, data types and data quality always occur;
\* the numerical block occurs iff the statistics table is non-empty, with
\* one block per entry in table order, before the later sections; the
\* correlation block occurs iff the matrix is present; the visualization
\* block holds one line per artifact, in list order, showing the file name
\* alone.
C16_ReportSections ==
    (InPipeline /\ pc = "done") =>
        LET at(k) == LinesOfKind(SectionOrder[k])
            blocks == SelectSeq(report.value, LAMBDA l : l.kind = "column")
            shown == SelectSeq(report.value, LAMBDA l : l.kind = "chart")
        IN  /\ \A k \in 1..6 : Cardinality(at(k)) <= 1
            /\ \A a, b \in 1..6 :
                  a < b => \A i \in at(a), j \in at(b) : i < j
            /\ \A k \in 1..3 : at(k) # {}
            /\ at(4) # {} <=> stats # <<>>
            /\ at(5) # {} <=> corr # None
            /\ Cardinality(LinesOfKind("matrix")) = Cardinality(at(5))
            /\ Len(blocks) = Len(stats)
            /\ \A k \in 1..Len(blocks) : blocks[k].args = <<stats[k].key>>
            /\ \A i \in LinesOfKind("column") :
                  /\ \A j \in at(4) : j < i
                  /\ \A j \in at(5) \cup at(6) : i < j
            /\ Len(shown) = Len(charts)
            /\ \A k \in 1..Len(shown) : shown[k].args = <<charts[k].name>>
            /\ \A i \in LinesOfKind("chart") :
                  at(6) # {} /\ \A j \in at(6) : j < i

C16_Witness ==
    /\ InPipeline /\ pc = "done"
    /\ Len(stats) = 1 /\ corr = None /\ Len(charts) = 2
    /\ LinesOfKind("NUMERICAL ANALYSIS") # {}
    /\ LinesOfKind("CORRELATIONS") = {}

----------------------------------------------------------------------------
(* C17 *)

\* C17: from the return of load_csv on, whatever stage has run, the frame
\* summarize_csv holds is the frame load_csv returned: same columns, same
\* dtypes, same cells; the report's data-type lines are those of that frame.
C17_DatasetNotMutated ==
    (InPipeline /\ pc # "load" /\ ~LoadFailed) =>
        LET loaded == load_csv(file).value
            shown == SelectSeq(IF pc = "done" THEN report.value ELSE <<>>,
                               LAMBDA l : l.kind = "dtype")
        IN  /\ df = loaded
            /\ pc = "done" =>
                  /\ Len(shown) = Len(loaded.columns)
                  /\ \A i \in 1..Len(shown) :
                        shown[i].args = <<loaded.columns[i], loaded.dtype[i]>>

C17_Witness ==
    /\ InPipeline /\ pc = "done"
    /\ FiguresNamed("time_series_analysis.png") # {}
    /\ df.columns[1] = <<"d","a","t","e">>
    /\ df.dtype[1] = "object"
    /\ Len(df.columns) = 2

----------------------------------------------------------------------------
(* C18 *)

\* the positions of the report's statistics blocks whose column holds no
\* non-null value in the frame
EmptyColumnBlocks(lines, frame) ==
    {k \in 1..Len(lines) :
        /\ lines[k].kind = "column"
        /\ NullCount(Column(frame, lines[k].args[1]))
             = Len(Column(frame, lines[k].args[1]))}

\* C18: in a finished report, the block of a numeric column with zero
\* non-null values shows no nan as its Mean, Std Dev, Range or Median, and
\* the statistics table holds no nan for such a column.
C18_NoNaNRendered ==
    (InPipeline /\ pc = "done") =>
        /\ \A k \in EmptyColumnBlocks(report.value, df) :
              \A j \in (k + 1)..(k + 4) :
                 \A a \in 1..Len(report.value[j].args) :
                    report.value[j].args[a] # NaN
        /\ \A i \in 1..Len(stats) :
              NullCount(Column(df, stats[i].key))
                   = Len(Column(df, stats[i].key))
                 => stats[i].mean # NaN

----------------------------------------------------------------------------
(* C19 *)

\* the frame has a date/time named column, and no cell of the first one
\* parses as a date
EmptyDateParse(frame) ==
    /\ DateNamedPositions(frame) # {}
    /\ LET k == Lowest(DateNamedPositions(frame)) IN
       \A r \in 1..Len(frame.data[k]) :
          ToDatetimeCell(frame.data[k][r]) = NaN

\* C19: when no cell of the chosen date/time column parses as a date, the
\* call of create_time_series_plots neither raises nor saves or lists
\* time_series_analysis.png.
C19_EmptyParseYieldsNothing ==
    (/\ InPipeline
     /\ "create_time_series_plots" \in Range(calls)
     /\ EmptyDateParse(df))
    => /\ FiguresNamed("time_series_analysis.png") = {}
       /\ PathOf(output_dir, "time_series_analysis.png") \notin Range(charts)
       /\ ~(pc = "raised" /\ calls[Len(calls)] = "create_time_series_plots")

----------------------------------------------------------------------------
(* C21 *)

\* C21: when summarize_csv has returned (no renderer failed): if
\* correlation_heatmap.png is in the artifact list then so is
\* distributions.png; if the report has a CORRELATIONS block then it has a
\* NUMERICAL ANALYSIS block; and distributions.png is listed iff the
\* statistics table is non-empty.
C21_NumericOutputsConsistent ==
    (InPipeline /\ pc = "done") =>
        /\ "correlation_heatmap.png" \in Range(ChartNames)
              => "distributions.png" \in Range(ChartNames)
        /\ LinesOfKind("CORRELATIONS") # {}
              => LinesOfKind("NUMERICAL ANALYSIS") # {}
        /\ "distributions.png" \in Range(ChartNames) <=> stats # <<>>

\* a run over a table with exactly one numeric column: statistics and
\* distributions without a matrix or a heatmap
C21_Witness ==
    /\ InPipeline /\ pc = "done"
    /\ Cardinality(NumericPositions(df)) = 1
    /\ Len(stats) = 1
    /\ corr = None
    /\ "distributions.png" \in Range(ChartNames)
    /\ "correlation_heatmap.png" \notin Range(ChartNames)
    /\ LinesOfKind("NUMERICAL ANALYSIS") # {}
    /\ LinesOfKind("CORRELATIONS") = {}

\* a run over a table with several numeric columns: all four outputs
C21_AllFourScenario ==
    /\ InPipeline /\ pc = "done"
    /\ Cardinality(NumericPositions(df)) >= 2
    /\ "correlation_heatmap.png" \in Range(ChartNames)
    /\ "distributions.png" \in Range(ChartNames)
    /\ LinesOfKind("CORRELATIONS") # {}
    /\ LinesOfKind("NUMERICAL ANALYSIS") # {}

----------------------------------------------------------------------------
(* C22 *)

\* the position of the column create_time_series_plots takes as date key
\* (only where DateNamedPositions is non-empty)
DateKey(frame) == Lowest(DateNamedPositions(frame))

\* C22: once create_time_series_plots has returned on a frame with a
\* date/time named column: the date key of a saved figure is that first
\* column and is none of its series, numeric or not; the series are the
\* first up to 3 of the frame's numeric columns other than the key; a frame
\* whose only numeric column is the key yields no time_series_analysis.png;
\* a numeric key next to another numeric column does yield one.
C22_DateKeyNotPlotted ==
    (Returned("create_time_series_plots") /\ DateNamedPositions(df) # {}) =>
        LET key == DateKey(df)
            rest == NumericPositions(df) \ {key}
            saved == FiguresNamed("time_series_analysis.png")
        IN  /\ \A k \in saved :
                  /\ figures[k].date_col = df.columns[key]
                  /\ df.columns[key] \notin Range(figures[k].cols)
                  /\ Range(figures[k].cols)
                       = {df.columns[i] : i \in FirstK(rest, 3)}
                  /\ Len(figures[k].cols) <= 3
            /\ NumericPositions(df) = {key} =>
                  /\ saved = {}
                  /\ "time_series_analysis.png" \notin Range(ChartNames)
            /\ (key \in NumericPositions(df) /\ rest # {}) => saved # {}

\* a numeric date key ahead of four other numeric columns: three plotted,
\* the key not among them
C22_Witness ==
    /\ Returned("create_time_series_plots")
    /\ DateNamedPositions(df) # {}
    /\ DateKey(df) = 1
    /\ NumericPositions(df) = 1..5
    /\ \E k \in FiguresNamed("time_series_analysis.png") :
          /\ Len(figures[k].cols) = 3
          /\ figures[k].date_col = df.columns[1]
          /\ Range(figures[k].cols) = {df.columns[i] : i \in 2..4}

\* a frame whose only numeric column is the date key: nothing saved
C22_OnlyKeyNumericScenario ==
    /\ Returned("create_time_series_plots")
    /\ DateNamedPositions(df) # {}
    /\ NumericPositions(df) = {DateKey(df)}
    /\ FiguresNamed("time_series_analysis.png") = {}
    /\ "distributions.png" \in Range(ChartNames)

=============================================================================
